---- MODULE Spec2Model ----
(***************************************************************************)
(* Model of the event dispatcher of pkg/whatsapp/whatsapp.go: handler,     *)
(* forwardReceipt, forwardToWebhook, ExtractMedia and the identity         *)
(* filters.  Strings the code inspects (JIDs, source strings) are          *)
(* sequences of one-character strings, so that strings.Contains and the    *)
(* \d+ regular expression are computed, not assumed.                       *)
(***************************************************************************)
EXTENDS Naturals, Integers, Sequences, FiniteSets, TLC

\* ------------------------------------------------------------------ bounds
\* Number of events the external client delivers to the dispatcher in a run.
MaxEvents == 2
\* Number of handler invocations running concurrently (concurrent model).
NumWorkers == 2
\* Number of HistorySync chunks delivered in the concurrent model.
MaxChunks == 3

\* ------------------------------------------------------------- characters
Digits == {"0", "1", "2", "3", "4", "5", "6", "7", "8", "9"}

SrvUser == <<"@", "s", ".", "w", "h", "a", "t", "s", "a", "p", "p", ".", "n", "e", "t">>
SrvGroup == <<"@", "g", ".", "u", "s">>
SrvBroadcast == <<"@", "b", "r", "o", "a", "d", "c", "a", "s", "t">>
InWord == <<" ", "i", "n", " ">>

\* The user parts of the addresses of the runs: the account itself, a
\* contact, a second contact, a group the account created, the status list.
UserSelf == <<"6", "2">>
UserPeer == <<"5", "5">>
UserOther == <<"7", "1">>
GroupOfSelf == <<"6", "2", "-", "9">>
StatusList == <<"s", "t", "a", "t", "u", "s">>

\* cli.Store.ID.String(): the account's own JID, with its device number.
cliStoreID == UserSelf \o <<":", "1">> \o SrvUser

\* ---------------------------------------------------------- string helpers
\* strings.Contains(s, sub)
Contains(s, sub) ==
    \/ Len(sub) = 0
    \/ \E i \in 1..Len(s) :
          /\ i + Len(sub) - 1 <= Len(s)
          /\ SubSeq(s, i, i + Len(sub) - 1) = sub

SetMin(S) == CHOOSE x \in S : \A y \in S : x <= y

SetMax(S) == CHOOSE x \in S : \A y \in S : y <= x

\* extractPhoneNumber keeping every digit of the string.
extractPhoneNumber_AllDigits(jid) ==
    LET digitPos == {i \in 1..Len(jid) : jid[i] \in Digits}
        nth(n) == CHOOSE i \in digitPos : Cardinality({j \in digitPos : j <= i}) = n
    IN  [n \in 1..Cardinality(digitPos) |-> jid[nth(n)]]

\* extractPhoneNumber: the leftmost match of \d+ (the first maximal run of
\* digits), "" when the string holds no digit.
extractPhoneNumber(jid) ==
    LET digitPos == {i \in 1..Len(jid) : jid[i] \in Digits}
    IN  IF digitPos = {} THEN <<>>
        ELSE LET a == SetMin(digitPos)
                 b == SetMax({j \in a..Len(jid) : \A k \in a..j : jid[k] \in Digits})
             IN  SubSeq(jid, a, b)

\* isFromMySelf(jid)
isFromMySelf(jid) == extractPhoneNumber(jid) = extractPhoneNumber(cliStoreID)

\* Needle of isGroupJid.
GroupNeedle == SrvGroup

\* isGroupJid comparing the whole JID with the needle.
isGroupJid_Equal(jid) == jid = GroupNeedle

\* isGroupJid(jid)
isGroupJid(jid) == Contains(jid, GroupNeedle)

\* Needle of the broadcast test on the source string.
BroadcastNeedle == <<"b", "r", "o", "a", "d", "c", "a", "s", "t">>

\* strings.Contains(evt.Info.SourceString(), "broadcast")
isBroadcastSource(src) == Contains(src, BroadcastNeedle)

\* ------------------------------------------------------------ event inputs
\* Message sources as the client library delivers them: the chat JID, the
\* sender JID, SourceString() ("sender in chat" when they differ), and the
\* library's own IsGroup / IsFromMe flags, which the handler does not read.
SrcPeerDirect ==
    [chat |-> UserPeer \o SrvUser, sender |-> UserPeer \o SrvUser,
     source |-> UserPeer \o SrvUser,
     isGroup |-> FALSE, isBroadcast |-> FALSE, fromMe |-> FALSE]

SrcSelfDirect ==
    [chat |-> UserPeer \o SrvUser, sender |-> UserSelf \o <<":", "2">> \o SrvUser,
     source |-> UserSelf \o <<":", "2">> \o SrvUser \o InWord \o UserPeer \o SrvUser,
     isGroup |-> FALSE, isBroadcast |-> FALSE, fromMe |-> TRUE]

SrcOtherInGroup ==
    [chat |-> GroupOfSelf \o SrvGroup, sender |-> UserOther \o SrvUser,
     source |-> UserOther \o SrvUser \o InWord \o GroupOfSelf \o SrvGroup,
     isGroup |-> TRUE, isBroadcast |-> FALSE, fromMe |-> FALSE]

SrcSelfInGroup ==
    [chat |-> GroupOfSelf \o SrvGroup, sender |-> UserSelf \o SrvUser,
     source |-> UserSelf \o SrvUser \o InWord \o GroupOfSelf \o SrvGroup,
     isGroup |-> TRUE, isBroadcast |-> FALSE, fromMe |-> TRUE]

SrcPeerBroadcast ==
    [chat |-> StatusList \o SrvBroadcast, sender |-> UserPeer \o SrvUser,
     source |-> UserPeer \o SrvUser \o InWord \o StatusList \o SrvBroadcast,
     isGroup |-> FALSE, isBroadcast |-> TRUE, fromMe |-> FALSE]

SrcSelfBroadcast ==
    [chat |-> StatusList \o SrvBroadcast, sender |-> UserSelf \o SrvUser,
     source |-> UserSelf \o SrvUser \o InWord \o StatusList \o SrvBroadcast,
     isGroup |-> FALSE, isBroadcast |-> TRUE, fromMe |-> TRUE]

Sources ==
    {SrcPeerDirect, SrcSelfDirect, SrcOtherInGroup, SrcSelfInGroup,
     SrcPeerBroadcast, SrcSelfBroadcast}

\* The five downloadable kinds, in the order forwardToWebhook extracts them.
MediaOrder == <<"image", "sticker", "video", "audio", "document">>

MediaKinds == {MediaOrder[i] : i \in DOMAIN MediaOrder}

\* Mime types of the runs, as character sequences: the types WhatsApp sends
\* for a photo, a sticker, a video, a voice note and a PDF document, and for
\* documents a type no table knows, an SVG drawing and the empty type.
MimeJpeg == <<"i", "m", "a", "g", "e", "/", "j", "p", "e", "g">>
MimeWebp == <<"i", "m", "a", "g", "e", "/", "w", "e", "b", "p">>
MimeMp4 == <<"v", "i", "d", "e", "o", "/", "m", "p", "4">>
MimeOgg == <<"a", "u", "d", "i", "o", "/", "o", "g", "g", ";", " ", "c", "o", "d", "e", "c", "s", "=", "o", "p", "u", "s">>
MimePdf == <<"a", "p", "p", "l", "i", "c", "a", "t", "i", "o", "n", "/", "p", "d", "f">>
MimeCustom == <<"a", "p", "p", "l", "i", "c", "a", "t", "i", "o", "n", "/", "x", "-", "c", "u", "s", "t", "o", "m">>
MimeSvg == <<"i", "m", "a", "g", "e", "/", "s", "v", "g", "+", "x", "m", "l">>
MimeEmpty == << >>

\* GetMimetype() of the media message of each kind, unless a body says otherwise.
WaMime(kind) ==
    CASE kind = "image" -> MimeJpeg
      [] kind = "sticker" -> MimeWebp
      [] kind = "video" -> MimeMp4
      [] kind = "audio" -> MimeOgg
      [] kind = "document" -> MimePdf

\* evt.Message: nil (isNil), or a message with its optional fields.
\*   conv: Conversation; etm: ExtendedTextMessage present; ext: its Text;
\*   ctx: its ContextInfo present; stanza: ContextInfo.StanzaID;
\*   media: the media kinds the message carries; mime: the mime type of
\*   the media message of each kind.
Body(conv, etm, ext, ctx, stanza, media) ==
    [isNil |-> FALSE, conv |-> conv, etm |-> etm, ext |-> ext, ctx |-> ctx,
     stanza |-> stanza, media |-> media,
     mime |-> [k \in MediaKinds |-> IF k \in media THEN WaMime(k) ELSE MimeEmpty]]

\* A message that carries one document of mime type mt.
DocumentBody(mt) ==
    [Body("", FALSE, "", FALSE, "", {"document"}) EXCEPT !.mime["document"] = mt]

NilBody ==
    [isNil |-> TRUE, conv |-> "", etm |-> FALSE, ext |-> "", ctx |-> FALSE,
     stanza |-> "", media |-> {}, mime |-> [k \in MediaKinds |-> MimeEmpty]]

Bodies ==
    {NilBody,
     Body("", FALSE, "", FALSE, "", {}),
     Body("hello", FALSE, "", FALSE, "", {}),
     Body("", TRUE, "hi", TRUE, "XYZ", {}),
     Body("", TRUE, "hi", FALSE, "", {}),
     Body("", TRUE, "", TRUE, "XYZ", {}),
     Body("", FALSE, "", FALSE, "", {"image"}),
     Body("", FALSE, "", FALSE, "", {"sticker"}),
     Body("", FALSE, "", FALSE, "", {"video"}),
     Body("", FALSE, "", FALSE, "", {"audio"}),
     Body("", FALSE, "", FALSE, "", {"document"}),
     Body("", FALSE, "", FALSE, "", {"image", "document"}),
     DocumentBody(MimeCustom),
     DocumentBody(MimeSvg),
     DocumentBody(MimeEmpty)}

\* types.ReceiptType values the handler distinguishes, and one it does not,
\* by the names of the library's constants (ReceiptTypeRead, ...).
ReceiptTypes == {"Read", "ReadSelf", "Delivered", "Played"}

\* The string a types.ReceiptType constant holds, which json.Marshal writes:
\* ReceiptTypeDelivered is the empty string.
ReceiptTypeString(rtype) ==
    CASE rtype = "Delivered" -> ""
      [] rtype = "Read" -> "read"
      [] rtype = "ReadSelf" -> "read-self"
      [] rtype = "Played" -> "played"

\* evt.MessageIDs of a receipt.
IdLists == {<< >>, <<"ABC">>, <<"ABC", "DEF">>}

\* appstate patch names of AppStateSyncComplete.
PatchNames == {"critical_block", "regular"}

\* evt.Data.SyncType of a HistorySync.
SyncTypes == {"INITIAL_BOOTSTRAP", "RECENT"}

\* One shape for every event variant; the fields a variant lacks keep
\* these defaults.
Event(kind) ==
    [kind |-> kind, info |-> SrcPeerDirect, id |-> "", body |-> NilBody,
     rtype |-> "", ids |-> << >>, timestamp |-> "", name |-> "", syncType |-> ""]

MessageEvt(src, body) ==
    [Event("Message") EXCEPT !.info = src, !.id = "MSG1", !.body = body]

ReceiptEvt(src, rtype, ids) ==
    [Event("Receipt") EXCEPT !.info = src, !.rtype = rtype, !.ids = ids,
                             !.timestamp = "2024-01-01T00:00:00Z"]

\* ------------------------------------------------ outcomes of external calls
\* cli.Download and os.WriteFile inside one ExtractMedia call.
MediaOutcomes == {"ok", "dlfail", "writefail"}

\* json.Marshal, http.NewRequest and client.Do of one delivery:
\*   marshalfail / reqfail: no request is sent;
\*   neterr: client.Do returns an error;
\*   rejected: client.Do returns a response whose status is not a success;
\*   accepted: client.Do returns a success response.
NetOutcomes == {"marshalfail", "reqfail", "neterr", "rejected", "accepted"}

\* cli.SendPresence.
PresenceOutcomes == {"ok", "fail"}

\* ------------------------------------------------------------------- state
VARIABLES
    cfg,            \* config.WhatsappWebhook, config.WhatsappAutoReplyMessage
    pushName,       \* cli.Store.PushName
    proc,           \* the process: "running", "exited" (os.Exit), "crashed"
    nHandled,       \* events handed to handler so far
    pc,             \* dispatcher: "idle", "handling", "done", "panicked"
    cur,            \* the event handler was invoked with
    last,           \* what the invocation of handler on cur did
    postCount,      \* event number -> HTTP POSTs issued for it so far
    anyFailed,      \* some earlier event's delivery returned an error
    historySyncID,  \* the package counter historySyncID (int32)
    assigned,       \* the values atomic.AddInt32 returned, in order
    histPaths,      \* the history files opened, in order
    openFiles,      \* history files opened and not closed
    wpc,            \* concurrent model: each invocation's position
    wid,            \* concurrent model: each invocation's local id
    wtype,          \* concurrent model: each invocation's evt.Data.SyncType
    chunks,         \* concurrent model: HistorySync events delivered
    selfTest        \* identity model: two JIDs and what isFromMySelf returned

vars ==
    <<cfg, pushName, proc, nHandled, pc, cur, last, postCount, anyFailed, historySyncID,
      assigned, histPaths, openFiles, wpc, wid, wtype, chunks, selfTest>>

Workers == 1..NumWorkers

\* ------------------------------------------------------------ ExtractMedia
\* The mediaFile argument of ExtractMedia: the media message of one kind of
\* a message body, and the nil interface value.
MediaRef(b, kind) == [kind |-> kind, mime |-> b.mime[kind]]

NilMedia == [kind |-> "none", mime |-> MimeEmpty]

ExtJpeg == <<".", "j", "p", "e", "g">>
ExtJpg == <<".", "j", "p", "g">>
ExtWebp == <<".", "w", "e", "b", "p">>
ExtPdf == <<".", "p", "d", "f">>
ExtSvg == <<".", "s", "v", "g">>

\* mime.ParseMediaType as ExtensionsByType uses it: the media type without
\* its parameters (the text before the first ";").
MediaTypeOf(mt) ==
    LET semi == {i \in 1..Len(mt) : mt[i] = ";"}
    IN  IF semi = {} THEN mt ELSE SubSeq(mt, 1, SetMin(semi) - 1)

\* mime.ExtensionsByType(typ): an error and no list when the type does not
\* parse (the empty type), else the sorted extensions the table holds for
\* the type, none for a type it does not know.  The table is the one built
\* into the Go library, which every platform has.
mimeExtensionsByType(typ) ==
    LET justType == MediaTypeOf(typ)
    IN  IF justType = << >> THEN [err |-> TRUE, ext |-> << >>]
        ELSE [err |-> FALSE,
              ext |-> CASE justType = MimeJpeg -> <<ExtJpeg, ExtJpg>>
                        [] justType = MimeWebp -> <<ExtWebp>>
                        [] justType = MimePdf -> <<ExtPdf>>
                        [] justType = MimeSvg -> <<ExtSvg>>
                        [] OTHER -> << >>]

\* "." + parts[len(parts)-1] of strings.Split(mimeType, "/") when the type
\* holds a "/", else "" (lines 504-506).
splitExtension(mimeType) ==
    LET slash == {i \in 1..Len(mimeType) : mimeType[i] = "/"}
    IN  IF slash = {} THEN << >>
        ELSE <<".">> \o SubSeq(mimeType, SetMax(slash) + 1, Len(mimeType))

\* extension of lines 501-506.  The table's answer is used only under
\* err != nil && len(ext) > 0.
extension(mimeType) ==
    LET lookup == mimeExtensionsByType(mimeType)
    IN  IF lookup.err /\ Len(lookup.ext) > 0 THEN lookup.ext[1]
        ELSE splitExtension(mimeType)

\* The file os.WriteFile creates (line 508): its root and extension; the
\* time and the uuid of its name differ from call to call.
MediaPath(storageLocation, mediaFile) ==
    [root |-> storageLocation, kind |-> mediaFile.kind,
     ext |-> extension(mediaFile.mime)]

\* The zero ExtractedMedia and a nil error, with no command and no write.
NoExtraction ==
    [err |-> FALSE, extracted |-> FALSE, cmds |-> << >>, writes |-> << >>]

\* ExtractMedia that logs a failed download and returns a nil error.
ExtractMedia_SwallowErr(storageLocation, mediaFile, oc) ==
    IF mediaFile = NilMedia
    THEN NoExtraction
    ELSE [err |-> FALSE, extracted |-> oc = "ok",
          cmds |-> <<[op |-> "Download", arg |-> mediaFile.kind]>>,
          writes |-> IF oc = "ok"
                     THEN <<MediaPath(storageLocation, mediaFile)>> ELSE << >>]

\* ExtractMedia without the nil check of lines 475-478: it downloads whatever
\* it is handed.
ExtractMedia_NoNilCheck(storageLocation, mediaFile, oc) ==
    IF oc = "ok"
    THEN [err |-> FALSE, extracted |-> TRUE,
          cmds |-> <<[op |-> "Download", arg |-> mediaFile.kind]>>,
          writes |-> <<MediaPath(storageLocation, mediaFile)>>]
    ELSE [err |-> TRUE, extracted |-> FALSE,
          cmds |-> <<[op |-> "Download", arg |-> mediaFile.kind]>>, writes |-> << >>]

\* ExtractMedia(storageLocation, mediaFile).  Returns the error flag, the
\* extracted descriptor, the client commands issued and the files written.
ExtractMedia(storageLocation, mediaFile, oc) ==
    IF mediaFile = NilMedia
    THEN NoExtraction
    ELSE IF oc = "dlfail"
    THEN [err |-> TRUE, extracted |-> FALSE,
          cmds |-> <<[op |-> "Download", arg |-> mediaFile.kind]>>, writes |-> << >>]
    ELSE IF oc = "writefail"
    THEN [err |-> TRUE, extracted |-> FALSE,
          cmds |-> <<[op |-> "Download", arg |-> mediaFile.kind]>>, writes |-> << >>]
    ELSE [err |-> FALSE, extracted |-> TRUE,
          cmds |-> <<[op |-> "Download", arg |-> mediaFile.kind]>>,
          writes |-> <<MediaPath(storageLocation, mediaFile)>>]

\* --------------------------------------------------------- webhook delivery
\* client.Do in a loop that sends once more after a network error.
clientDo_Retry(eid, payload, net) ==
    IF net = "neterr"
    THEN <<[eid |-> eid, payload |-> payload, resp |-> net],
           [eid |-> eid, payload |-> payload, resp |-> net]>>
    ELSE <<[eid |-> eid, payload |-> payload, resp |-> net]>>

\* client.Do(req): the one HTTP exchange of a delivery.
clientDo(eid, payload, net) ==
    <<[eid |-> eid, payload |-> payload, resp |-> net]>>

\* The common tail of forwardReceipt and forwardToWebhook: json.Marshal,
\* http.NewRequest, client.Do.  The response is discarded; only an error of
\* client.Do makes the delivery fail.
submitWebhook(eid, payload, net) ==
    IF net = "marshalfail" THEN [ret |-> "WebhookError", posts |-> << >>]
    ELSE IF net = "reqfail" THEN [ret |-> "WebhookError", posts |-> << >>]
    ELSE [ret |-> IF net = "neterr" THEN "WebhookError" ELSE "nil",
          posts |-> clientDo(eid, payload, net)]

\* forwardReceipt(evt)
forwardReceipt(evt, eid, net) ==
    LET body == [source |-> evt.info.source, timestamp |-> evt.timestamp,
                 type |-> ReceiptTypeString(evt.rtype), ids |-> evt.ids]
        sub == submitWebhook(eid, body, net)
    IN  [ret |-> sub.ret, stage |-> "deliver", posts |-> sub.posts,
         cmds |-> << >>, writes |-> << >>]

\* The body map of forwardToWebhook before extraction: every media field
\* holds the raw reference (or nil).
RawFields(b) == [k \in MediaKinds |-> IF k \in b.media THEN "raw" ELSE "nil"]

\* Lines 398-432: the five extractions in order, stopping at the first error.
RECURSIVE ExtractFrom(_, _, _, _)
ExtractFrom(i, b, ocs, acc) ==
    IF i > Len(MediaOrder) THEN acc
    ELSE LET k == MediaOrder[i]
         IN  IF k \notin b.media THEN ExtractFrom(i + 1, b, ocs, acc)
             ELSE LET x == ExtractMedia("PathMedia", MediaRef(b, k), ocs[k])
                      nxt == [err |-> x.err,
                              fields |-> IF x.err THEN acc.fields
                                         ELSE [acc.fields EXCEPT ![k] = "extracted"],
                              cmds |-> acc.cmds \o x.cmds,
                              writes |-> acc.writes \o x.writes]
                  IN  IF x.err THEN nxt ELSE ExtractFrom(i + 1, b, ocs, nxt)

\* evtMessage of forwardToWebhook (lines 352-358).
NormalizeMessage(evt) ==
    LET b == evt.body
        extended == IF b.etm THEN b.ext ELSE ""
    IN  [id |-> evt.id,
         text |-> IF extended # "" THEN extended ELSE b.conv,
         replied_id |-> IF extended # "" /\ b.ctx THEN b.stanza ELSE ""]

\* forwardToWebhook(evt).  A nil evt.Message panics at the first field
\* access through it (line 355).
forwardToWebhook(evt, eid, ocs, net) ==
    LET b == evt.body
    IN  IF b.isNil
        THEN [ret |-> "panic", stage |-> "normalize", posts |-> << >>,
              cmds |-> << >>, writes |-> << >>]
        ELSE LET x == ExtractFrom(1, b, ocs,
                          [err |-> FALSE, fields |-> RawFields(b),
                           cmds |-> << >>, writes |-> << >>])
                 body == [from |-> evt.info.source,
                          message |-> NormalizeMessage(evt), media |-> x.fields]
                 sub == submitWebhook(eid, body, net)
             IN  IF x.err
                 THEN [ret |-> "WebhookError", stage |-> "extract", posts |-> << >>,
                       cmds |-> x.cmds, writes |-> x.writes]
                 ELSE [ret |-> sub.ret, stage |-> "deliver", posts |-> sub.posts,
                       cmds |-> x.cmds, writes |-> x.writes]

\* ------------------------------------------------------------------ handler
\* What one invocation of handler did: how it ended ("returned", "panic",
\* "exit"), whether and how the forwarding function ran, and the HTTP POSTs,
\* client commands, file writes, broadcast notifications and log lines.
NoEffect ==
    [outcome |-> "returned", fwdCalled |-> FALSE, fwdRet |-> "none",
     fwdStage |-> "none", posts |-> << >>, cmds |-> << >>, writes |-> << >>,
     bcasts |-> << >>, logs |-> << >>]

\* The outcomes drawn for the external calls of one invocation.
Env(himg, ocs, net, pres) ==
    [himg |-> himg, ocs |-> ocs, net |-> net, pres |-> pres]

AllOk == [k \in MediaKinds |-> "ok"]

\* SendPresence sent once more after a failure.
sendPresence_Retry(pres) ==
    [NoEffect EXCEPT
        !.cmds = IF pres = "fail"
                 THEN <<[op |-> "SendPresence", arg |-> "available"],
                        [op |-> "SendPresence", arg |-> "available"]>>
                 ELSE <<[op |-> "SendPresence", arg |-> "available"]>>,
        !.logs = <<IF pres = "fail" THEN "warn:presence" ELSE "info:presence">>]

\* cli.SendPresence(types.PresenceAvailable) and its log line.
sendPresence(pres) ==
    [NoEffect EXCEPT
        !.cmds = <<[op |-> "SendPresence", arg |-> "available"]>>,
        !.logs = <<IF pres = "fail" THEN "warn:presence" ELSE "info:presence">>]

\* The call of a forwarding function from handler and the logging of its
\* error (lines 260-262, 269-271, 277-279).
Forwarded(base, f) ==
    [base EXCEPT
        !.outcome = IF f.ret = "panic" THEN "panic" ELSE "returned",
        !.fwdCalled = TRUE,
        !.fwdRet = f.ret,
        !.fwdStage = f.stage,
        !.posts = f.posts,
        !.cmds = base.cmds \o f.cmds,
        !.writes = base.writes \o f.writes,
        !.logs = IF f.ret = "WebhookError"
                 THEN base.logs \o <<"error:forward">> ELSE base.logs]

\* case *events.Message (lines 227-263)
handleMessage(evt, eid, env) ==
    LET info == evt.info
        b == evt.body
        img == IF ~b.isNil /\ "image" \in b.media
               THEN ExtractMedia("PathStorages", MediaRef(b, "image"), env.himg)
               ELSE NoExtraction
        imgLogs == IF b.isNil \/ "image" \notin b.media THEN << >>
                   ELSE IF img.err THEN <<"error:image">> ELSE <<"info:image">>
        reply == IF /\ cfg.autoReply # ""
                    /\ ~isGroupJid(info.chat)
                    /\ ~isBroadcastSource(info.source)
                 THEN <<[op |-> "SendMessage", arg |-> info.sender]>>
                 ELSE << >>
        base == [NoEffect EXCEPT
                    !.cmds = img.cmds \o reply,
                    !.writes = img.writes,
                    !.logs = <<"info:message">> \o imgLogs]
    IN  IF /\ cfg.webhook # ""
           /\ ~isBroadcastSource(info.source)
           /\ ~isFromMySelf(info.source)
        THEN Forwarded(base, forwardToWebhook(evt, eid, env.ocs, env.net))
        ELSE base

\* case *events.Receipt (lines 264-281).  The Delivered branch logs
\* evt.MessageIDs[0], which panics on an empty list.
handleReceipt(evt, eid, env) ==
    IF evt.rtype \in {"Read", "ReadSelf"}
    THEN LET base == [NoEffect EXCEPT !.logs = <<"info:read">>]
         IN  IF cfg.webhook # "" /\ ~isFromMySelf(evt.info.source)
             THEN Forwarded(base, forwardReceipt(evt, eid, env.net))
             ELSE base
    ELSE IF evt.rtype = "Delivered"
    THEN IF Len(evt.ids) = 0
         THEN [NoEffect EXCEPT !.outcome = "panic"]
         ELSE LET base == [NoEffect EXCEPT !.logs = <<"info:delivered">>]
              IN  IF cfg.webhook # "" /\ ~isFromMySelf(evt.info.source)
                  THEN Forwarded(base, forwardReceipt(evt, eid, env.net))
                  ELSE base
    ELSE NoEffect

\* websocket.Broadcast <- msg.  The sink takes the record and the sender
\* goes on: nothing is awaited from the sink.
BroadcastSend(msg) == <<msg>>

\* case *events.PairSuccess (lines 202-206)
pairSuccess ==
    [NoEffect EXCEPT
        !.bcasts = BroadcastSend([code |-> "LOGIN_SUCCESS",
                                  message |-> "Successfully pair with ID",
                                  result |-> "nil"])]

\* A logout that notifies nobody.
loggedOut_Unannounced == NoEffect

\* case *events.LoggedOut (lines 207-211)
loggedOut ==
    [NoEffect EXCEPT
        !.bcasts = BroadcastSend([code |-> "LIST_DEVICES", message |-> "",
                                  result |-> "nil"])]

\* StreamReplaced exiting only once the account has a push name.
streamReplaced_WhenNamed ==
    IF pushName = "" THEN NoEffect ELSE [NoEffect EXCEPT !.outcome = "exit"]

\* case *events.StreamReplaced: os.Exit(0) (lines 225-226).
streamReplaced == [NoEffect EXCEPT !.outcome = "exit"]

\* handler answering a contact's presence update with its own presence.
handler_PresenceAnnounces(evt, eid, env) ==
    CASE evt.kind = "DeleteForMe" -> [NoEffect EXCEPT !.logs = <<"info:deleted">>]
      [] evt.kind = "AppStateSyncComplete" ->
            IF pushName # "" /\ evt.name = "critical_block"
            THEN sendPresence(env.pres) ELSE NoEffect
      [] evt.kind = "PairSuccess" -> pairSuccess
      [] evt.kind = "LoggedOut" -> loggedOut
      [] evt.kind \in {"Connected", "PushNameSetting"} ->
            IF pushName = "" THEN NoEffect ELSE sendPresence(env.pres)
      [] evt.kind = "StreamReplaced" -> streamReplaced
      [] evt.kind = "Message" -> handleMessage(evt, eid, env)
      [] evt.kind = "Receipt" -> handleReceipt(evt, eid, env)
      [] evt.kind = "Presence" -> sendPresence(env.pres)
      [] evt.kind = "AppState" -> [NoEffect EXCEPT !.logs = <<"debug:appstate">>]
      [] OTHER -> NoEffect

\* handler(rawEvt): the type switch.  The HistorySync case (lines 292-308)
\* is modelled step by step below (HistBegin .. HistClose), because only
\* there do concurrent invocations share state.
handler(evt, eid, env) ==
    CASE evt.kind = "DeleteForMe" -> [NoEffect EXCEPT !.logs = <<"info:deleted">>]
      [] evt.kind = "AppStateSyncComplete" ->
            IF pushName # "" /\ evt.name = "critical_block"
            THEN sendPresence(env.pres) ELSE NoEffect
      [] evt.kind = "PairSuccess" -> pairSuccess
      [] evt.kind = "LoggedOut" -> loggedOut
      [] evt.kind \in {"Connected", "PushNameSetting"} ->
            IF pushName = "" THEN NoEffect ELSE sendPresence(env.pres)
      [] evt.kind = "StreamReplaced" -> streamReplaced
      [] evt.kind = "Message" -> handleMessage(evt, eid, env)
      [] evt.kind = "Receipt" -> handleReceipt(evt, eid, env)
      [] evt.kind = "Presence" -> [NoEffect EXCEPT !.logs = <<"info:presence-update">>]
      [] evt.kind = "AppState" -> [NoEffect EXCEPT !.logs = <<"debug:appstate">>]
      [] OTHER -> NoEffect


\* --------------------------------------------------------------- dispatcher
\* Event variants whose case reads no field the model distinguishes; "Other"
\* is a variant the switch has no case for.
PlainKinds ==
    {"DeleteForMe", "PairSuccess", "LoggedOut", "Connected", "PushNameSetting",
     "StreamReplaced", "Presence", "AppState", "Other"}

PresenceKinds == {"AppStateSyncComplete", "Connected", "PushNameSetting"}

EventInputs ==
    {MessageEvt(s, b) : s \in Sources, b \in Bodies}
        \cup {ReceiptEvt(x[1], x[2], x[3]) : x \in Sources \X ReceiptTypes \X IdLists}
        \cup {[Event("AppStateSyncComplete") EXCEPT !.name = n] : n \in PatchNames}
        \cup {Event(k) : k \in PlainKinds}

NoEvent == Event("None")

NoLast ==
    [eid |-> 0, evt |-> NoEvent, env |-> Env("ok", AllOk, "accepted", "ok"),
     r |-> NoEffect, failedBefore |-> FALSE]

\* The identity model at rest.
NoSelfTest == [a |-> << >>, b |-> << >>, selfA |-> FALSE, selfB |-> FALSE, done |-> FALSE]

InitDispatcher ==
    /\ cfg \in [webhook : {"", "http://hook"}, autoReply : {"", "auto"}]
    /\ pushName \in {"", "me"}
    /\ proc = "running"
    /\ nHandled = 0
    /\ pc = "idle"
    /\ cur = NoEvent
    /\ last = NoLast
    /\ postCount = [e \in 1..MaxEvents |-> 0]
    /\ anyFailed = FALSE
    /\ historySyncID = 0
    /\ assigned = << >>
    /\ histPaths = << >>
    /\ openFiles = 0
    /\ wpc = [w \in Workers |-> "idle"]
    /\ wid = [w \in Workers |-> 0]
    /\ wtype = [w \in Workers |-> ""]
    /\ chunks = 0

Init ==
    /\ InitDispatcher
    /\ selfTest = NoSelfTest

histVars == <<historySyncID, assigned, histPaths, openFiles, wpc, wid, wtype, chunks>>

\* The client library invokes handler with the next event (line 173).
Receive ==
    /\ proc = "running"
    /\ pc = "idle"
    /\ nHandled < MaxEvents
    /\ \E evt \in EventInputs : cur' = evt
    /\ nHandled' = nHandled + 1
    /\ pc' = "handling"
    /\ UNCHANGED <<cfg, pushName, proc, last, postCount, anyFailed>>
    /\ UNCHANGED <<histVars, selfTest>>

\* The bookkeeping of one finished invocation with effects r.
FinishWith(env, r) ==
    /\ last' = [eid |-> nHandled, evt |-> cur, env |-> env, r |-> r,
                failedBefore |-> anyFailed]
    /\ postCount' =
          [e \in DOMAIN postCount |->
              postCount[e] + Cardinality({i \in 1..Len(r.posts) : r.posts[i].eid = e})]
    /\ anyFailed' =
          \/ anyFailed
          \/ r.fwdRet = "WebhookError"
          \/ \E i \in 1..Len(r.logs) : r.logs[i] = "error:image"
    /\ pc' = IF r.outcome = "panic" THEN "panicked" ELSE "done"
    /\ proc' = IF r.outcome = "exit" THEN "exited" ELSE proc
    /\ UNCHANGED <<cfg, pushName, nHandled, cur>>
    /\ UNCHANGED <<histVars, selfTest>>

\* The invocation of handler on cur, with the outcomes env of its external
\* calls, runs to its end.
Finish(env) ==
    /\ proc = "running"
    /\ pc = "handling"
    /\ LET r == handler(cur, nHandled, env) IN FinishWith(env, r)

HandleMessage ==
    /\ cur.kind = "Message"
    /\ \E himg \in (IF "image" \in cur.body.media THEN MediaOutcomes ELSE {"ok"}),
          g \in [cur.body.media -> MediaOutcomes],
          net \in NetOutcomes :
          LET ocs == [k \in MediaKinds |-> IF k \in cur.body.media THEN g[k] ELSE "ok"]
          IN  Finish(Env(himg, ocs, net, "ok"))

HandleReceipt ==
    /\ cur.kind = "Receipt"
    /\ \E net \in NetOutcomes :
          Finish(Env("ok", AllOk, net, "ok"))

HandlePresenceKind ==
    /\ cur.kind \in PresenceKinds
    /\ \E pres \in PresenceOutcomes :
          Finish(Env("ok", AllOk, "accepted", pres))

HandleOther ==
    /\ cur.kind \notin PresenceKinds \cup {"Message", "Receipt"}
    /\ Finish(Env("ok", AllOk, "accepted", "ok"))

\* handler returned: the dispatcher is ready for the next event.
Return ==
    /\ proc = "running"
    /\ pc = "done"
    /\ pc' = "idle"
    /\ cur' = NoEvent
    /\ last' = NoLast
    /\ UNCHANGED <<cfg, pushName, proc, nHandled, postCount, anyFailed>>
    /\ UNCHANGED <<histVars, selfTest>>

\* A panic left handler.  handler has no recover: what happens next is the
\* caller's business, either it recovers and goes on with the next event ...
CallerRecovers ==
    /\ proc = "running"
    /\ pc = "panicked"
    /\ pc' = "idle"
    /\ cur' = NoEvent
    /\ last' = NoLast
    /\ UNCHANGED <<cfg, pushName, proc, nHandled, postCount, anyFailed>>
    /\ UNCHANGED <<histVars, selfTest>>

\* ... or the panic ends the process.
ProcessCrashes ==
    /\ proc = "running"
    /\ pc = "panicked"
    /\ proc' = "crashed"
    /\ UNCHANGED <<cfg, pushName, nHandled, pc, cur, last, postCount, anyFailed>>
    /\ UNCHANGED <<histVars, selfTest>>

Next ==
    \/ Receive
    \/ HandleMessage
    \/ HandleReceipt
    \/ HandlePresenceKind
    \/ HandleOther
    \/ Return
    \/ CallerRecovers
    \/ ProcessCrashes

Spec == Init /\ [][Next]_vars

\* ------------------------------------------- HistorySync, step by step
\* An add that returns the value the counter held before the addition.
AtomicAddInt32_Old(v, delta) == v

\* The largest value of the int32 historySyncID.
MaxInt32 == 2147483647

\* atomic.AddInt32(&historySyncID, delta), delta >= 0: the new value, which
\* wraps to the smallest int32 past MaxInt32.
AtomicAddInt32(v, delta) ==
    IF delta > 0 /\ v > MaxInt32 - delta
    THEN (0 - MaxInt32 - 1) + (delta - 1 - (MaxInt32 - v))
    ELSE v + delta

\* fileName of line 294; startupTime and the account are fixed in a run.
HistoryFileName(id, syncType) == [id |-> id, syncType |-> syncType]

mainVars == <<cfg, pushName, proc, nHandled, pc, cur, last, postCount, anyFailed>>

\* An invocation starts on a HistorySync event and takes its id (line 293).
HistBegin(w) ==
    /\ proc = "running"
    /\ wpc[w] = "idle"
    /\ chunks < MaxChunks
    /\ \E t \in SyncTypes : wtype' = [wtype EXCEPT ![w] = t]
    /\ LET id == AtomicAddInt32(historySyncID, 1)
       IN  /\ historySyncID' = id
           /\ wid' = [wid EXCEPT ![w] = id]
           /\ assigned' = Append(assigned, id)
    /\ chunks' = chunks + 1
    /\ wpc' = [wpc EXCEPT ![w] = "open"]
    /\ UNCHANGED <<histPaths, openFiles>>
    /\ UNCHANGED <<mainVars, selfTest>>

\* os.OpenFile (lines 295-299): on an error the invocation returns.
HistOpen(w) ==
    /\ proc = "running"
    /\ wpc[w] = "open"
    /\ \E ok \in BOOLEAN :
          IF ok
          THEN /\ histPaths' = Append(histPaths, HistoryFileName(wid[w], wtype[w]))
               /\ openFiles' = openFiles + 1
               /\ wpc' = [wpc EXCEPT ![w] = "encode"]
          ELSE /\ wpc' = [wpc EXCEPT ![w] = "idle"]
               /\ UNCHANGED <<histPaths, openFiles>>
    /\ UNCHANGED <<historySyncID, assigned, wid, wtype, chunks>>
    /\ UNCHANGED <<mainVars, selfTest>>

\* enc.Encode (lines 300-306): on an error the invocation returns; the file
\* is not closed on that path.
HistEncode(w) ==
    /\ proc = "running"
    /\ wpc[w] = "encode"
    /\ \E ok \in BOOLEAN :
          wpc' = [wpc EXCEPT ![w] = IF ok THEN "close" ELSE "idle"]
    /\ UNCHANGED <<historySyncID, assigned, histPaths, openFiles, wid, wtype, chunks>>
    /\ UNCHANGED <<mainVars, selfTest>>

\* file.Close (line 308).
HistClose(w) ==
    /\ proc = "running"
    /\ wpc[w] = "close"
    /\ openFiles' = openFiles - 1
    /\ wpc' = [wpc EXCEPT ![w] = "idle"]
    /\ UNCHANGED <<historySyncID, assigned, histPaths, wid, wtype, chunks>>
    /\ UNCHANGED <<mainVars, selfTest>>

NextHist ==
    \E w \in Workers :
        \/ HistBegin(w)
        \/ HistOpen(w)
        \/ HistEncode(w)
        \/ HistClose(w)

\* The HistorySync case reads neither the configuration nor the push name.
InitHist ==
    /\ Init
    /\ cfg = [webhook |-> "", autoReply |-> ""]
    /\ pushName = ""

\* Concurrent invocations of handler on HistorySync events.
SpecHist == InitHist /\ [][NextHist]_vars

\* --------------------------------------------------- isFromMySelf, alone
\* JIDs and source strings handed to isFromMySelf: an optional "+", a user
\* part, an optional device number, a server; and source strings of
\* messages in a group, a JID without digits and the empty string.
JidUsers == {UserSelf, UserPeer, UserSelf \o <<"1">>, <<"6">>}

JidInputs ==
    {x[1] \o x[2] \o x[3] \o x[4] :
        x \in {<< >>, <<"+">>} \X JidUsers \X {<< >>, <<":", "2">>}
              \X {SrvUser, SrvGroup, << >>}}
      \cup {SrcOtherInGroup.source, SrcSelfInGroup.source,
            StatusList \o SrvBroadcast, << >>}

\* isFromMySelf is called on some pair of JIDs.
InitSelf ==
    /\ InitDispatcher
    /\ cfg = [webhook |-> "", autoReply |-> ""]
    /\ pushName = ""
    /\ selfTest \in [a : JidInputs, b : JidInputs, selfA : {FALSE},
                      selfB : {FALSE}, done : {FALSE}]

EvalIsFromMySelf ==
    /\ ~selfTest.done
    /\ selfTest' = [selfTest EXCEPT !.selfA = isFromMySelf(selfTest.a),
                                    !.selfB = isFromMySelf(selfTest.b),
                                    !.done = TRUE]
    /\ UNCHANGED <<mainVars, histVars>>

NextSelf == EvalIsFromMySelf

SpecSelf == InitSelf /\ [][NextSelf]_vars


\* ------------------------------------------------------------------ claims
\* An invocation of handler has ended (by return, exit or panic) and its
\* record is in last.
Ended == pc \in {"done", "panicked"}

PostsOf(r) == {r.posts[i] : i \in 1..Len(r.posts)}

CmdsOf(r) == {r.cmds[i] : i \in 1..Len(r.cmds)}

LogsOf(r) == {r.logs[i] : i \in 1..Len(r.logs)}

\* C1: every event is POSTed to the webhook at most once, whatever the POST's
\* outcome: an invocation issues at most one POST, only for its own event,
\* and no event's count of POSTs ever exceeds one (so no later invocation
\* sends an earlier event again).
C1_AtMostOnce ==
    /\ \A e \in DOMAIN postCount : postCount[e] <= 1
    /\ \A e \in DOMAIN postCount : e > nHandled => postCount[e] = 0
    /\ Len(last.r.posts) <= 1
    /\ \A p \in PostsOf(last.r) : p.eid = last.eid

\* The POST of the first event failed with a network error, and a second
\* event has been handled and POSTed after it.
C1_Witness ==
    /\ pc = "done"
    /\ last.eid = 2
    /\ last.failedBefore
    /\ postCount[1] = 1
    /\ postCount[2] = 1
    /\ \E p \in PostsOf(last.r) : p.resp = "neterr"

\* The forwarding conditions the claims name, on the library's own flags.
ForwardableMessage(evt) ==
    /\ evt.kind = "Message"
    /\ cfg.webhook # ""
    /\ ~evt.info.isBroadcast
    /\ ~evt.info.fromMe

ForwardableReceipt(evt) ==
    /\ evt.kind = "Receipt"
    /\ evt.rtype \in {"Read", "ReadSelf", "Delivered"}
    /\ cfg.webhook # ""
    /\ ~evt.info.fromMe

\* C2: when the delivery or the media download of an event fails, its
\* handling still completes, and every forwardable event handled after a
\* failure still gets its own delivery attempt (its forwarding function is
\* called).
C2_PipelineLiveness ==
    /\ (Ended /\ (last.r.fwdRet = "WebhookError" \/ "error:image" \in LogsOf(last.r)))
          => last.r.outcome = "returned"
    /\ (Ended /\ last.failedBefore
              /\ (ForwardableMessage(last.evt) \/ ForwardableReceipt(last.evt)))
          => last.r.fwdCalled

\* C3: the k-th increment of historySyncID yields k (so the first id is 1 and
\* the ids are strictly increasing and pairwise different), invocations in
\* flight hold different ids, and no two history files share a path.
C3_HistorySequence ==
    /\ \A k \in 1..Len(assigned) : assigned[k] = k
    /\ \A v, w \in Workers :
          (v # w /\ wpc[v] # "idle" /\ wpc[w] # "idle") => wid[v] # wid[w]
    /\ \A i, j \in 1..Len(histPaths) : i # j => histPaths[i] # histPaths[j]

\* Two invocations are in flight at once and both have opened their file.
C3_Witness ==
    /\ \E v, w \in Workers : v # w /\ wpc[v] = "encode" /\ wpc[w] = "encode"
    /\ Len(assigned) >= 2
    /\ Len(histPaths) >= 2

\* C4: a "send text message" command is issued only for a Message event, only
\* with a non-empty auto-reply text configured, and never when the chat is a
\* group or the source is a broadcast.
C4_AutoReplySuppressed ==
    \A c \in CmdsOf(last.r) :
        c.op = "SendMessage" =>
            /\ last.evt.kind = "Message"
            /\ cfg.autoReply # ""
            /\ ~last.evt.info.isGroup
            /\ ~last.evt.info.isBroadcast

\* A group message was handled with an auto-reply text configured.
C4_Witness ==
    /\ pc = "done"
    /\ last.evt.kind = "Message"
    /\ last.evt.info.isGroup
    /\ cfg.autoReply # ""
    /\ ~last.evt.body.isNil

\* Some media kind the message carries failed to download or to be written.
MediaFailure(l) == \E k \in l.evt.body.media : l.env.ocs[k] # "ok"

\* C5: when forwardToWebhook runs on a message and the download or the write
\* of a media kind it carries fails, it returns an error and no POST is
\* issued; and every POSTed message payload holds the extracted descriptor
\* for each media kind present, never the raw reference.
C5_NoBrokenMedia ==
    /\ (Ended /\ last.evt.kind = "Message" /\ last.r.fwdCalled
              /\ ~last.evt.body.isNil /\ MediaFailure(last))
          => (last.r.fwdRet = "WebhookError" /\ last.r.posts = << >>)
    /\ \A p \in PostsOf(last.r) :
          last.evt.kind = "Message" =>
              \A k \in MediaKinds :
                  p.payload.media[k] =
                      IF k \in last.evt.body.media THEN "extracted" ELSE "nil"

\* A message with two media kinds was forwarded: the image was extracted,
\* the write of the document failed, and forwardToWebhook stopped there.
C5_Witness ==
    /\ pc = "done"
    /\ last.evt.kind = "Message"
    /\ Cardinality(last.evt.body.media) = 2
    /\ last.r.fwdCalled
    /\ last.env.ocs["image"] = "ok"
    /\ last.env.ocs["document"] = "writefail"
    /\ last.r.fwdStage = "extract"

\* C6: handling any event other than StreamReplaced ends normally, also an
\* event with an empty list or an absent body: no panic leaves handler and
\* the process keeps running.
C6_NoPanicEscapes ==
    (Ended /\ last.evt.kind # "StreamReplaced")
        => (last.r.outcome = "returned" /\ proc = "running")

\* No effect at all: no POST, client command, file write or notification.
Silent(r) ==
    /\ r.posts = << >>
    /\ r.cmds = << >>
    /\ r.writes = << >>
    /\ r.bcasts = << >>

\* C7, state part: handling StreamReplaced exits the process whatever the
\* configuration, with no other effect, and only StreamReplaced exits.
C7_ExitIffStreamReplaced ==
    /\ (Ended /\ last.evt.kind = "StreamReplaced")
          => (proc = "exited" /\ last.r.outcome = "exit" /\ Silent(last.r))
    /\ proc = "exited" => (pc = "done" /\ last.evt.kind = "StreamReplaced")

\* C7: StreamReplaced is terminal: it alone, and always, exits the process,
\* and once the process has exited nothing changes any more (no event is
\* dispatched, no POST, command or write is started).
C7_StreamReplacedTerminal ==
    /\ []C7_ExitIffStreamReplaced
    /\ [][proc = "exited" => UNCHANGED vars]_vars

\* StreamReplaced was handled as the first event, with a webhook configured
\* and events still to come.
C7_Witness ==
    /\ proc = "exited"
    /\ nHandled < MaxEvents
    /\ cfg.webhook # ""
    /\ pushName = ""

\* C8: a Message event gets a webhook delivery attempt (forwardToWebhook
\* reaches the delivery step) exactly when a webhook is configured, the
\* source is neither a broadcast nor the account itself, and every media kind
\* it carries was extracted; without a webhook nothing is forwarded and no
\* error is logged.
C8_MessageForwardIff ==
    (Ended /\ last.evt.kind = "Message") =>
        /\ (last.r.fwdStage = "deliver") <=>
              (ForwardableMessage(last.evt) /\ ~MediaFailure(last))
        /\ cfg.webhook = "" =>
              (~last.r.fwdCalled /\ "error:forward" \notin LogsOf(last.r)
                 /\ last.r.outcome = "returned")

\* C9: a receipt of type Read, ReadSelf or Delivered, with a webhook
\* configured and a source that is not the account itself, gets exactly one
\* delivery attempt; every other receipt gets none.
C9_ReceiptForwardIff ==
    (Ended /\ last.evt.kind = "Receipt") =>
        IF ForwardableReceipt(last.evt)
        THEN last.r.fwdCalled /\ last.r.fwdStage = "deliver" /\ Len(last.r.posts) <= 1
        ELSE ~last.r.fwdCalled /\ last.r.posts = << >>

\* C10: a forwarding function returns nil only when the endpoint accepted the
\* POST, and the webhook error whenever serialization, request construction,
\* the exchange or the endpoint's rejection fails the delivery; the caller
\* logs the error and returns.
C10_UniformDeliveryError ==
    (Ended /\ last.r.fwdCalled /\ last.r.fwdStage = "deliver") =>
        /\ last.r.fwdRet \in {"nil", "WebhookError"}
        /\ (last.r.fwdRet = "nil") <=> (last.env.net = "accepted")
        /\ (last.r.fwdRet = "WebhookError") =>
              ("error:forward" \in LogsOf(last.r) /\ last.r.outcome = "returned")

\* C11: handling a Message event that carries no media reference issues no
\* Download command and writes no file, whether or not it is forwarded; and
\* ExtractMedia on the nil reference returns the empty result and no error,
\* with no command and no write, for either storage location.
C11_TextOnlyNoMediaIO ==
    /\ (Ended /\ last.evt.kind = "Message" /\ last.evt.body.media = {}) =>
          /\ \A c \in CmdsOf(last.r) : c.op # "Download"
          /\ last.r.writes = << >>
    /\ \A loc \in {"PathStorages", "PathMedia"}, oc \in MediaOutcomes :
          ExtractMedia(loc, NilMedia, oc) =
              NoExtraction

\* A text-only message was forwarded and delivered, with an auto-reply sent.
C11_Witness ==
    /\ pc = "done"
    /\ last.evt.kind = "Message"
    /\ ~last.evt.body.isNil
    /\ last.evt.body.media = {}
    /\ last.evt.body.conv # ""
    /\ last.r.fwdStage = "deliver"
    /\ Len(last.r.posts) = 1
    /\ \E c \in CmdsOf(last.r) : c.op = "SendMessage"

\* The extensions the table of mime.ExtensionsByType holds for a mime type.
StandardExtensions(mimeType) ==
    LET lookup == mimeExtensionsByType(mimeType)
    IN  {lookup.ext[i] : i \in 1..Len(lookup.ext)}

\* C12: every file written for a media reference has, as its extension, one
\* of the standard extensions of the reference's mime type when the lookup
\* yields any, otherwise "." and the text after the last "/" of the mime
\* type, and the empty extension when the mime type is empty.
C12_ExtensionDerivation ==
    \A i \in 1..Len(last.r.writes) :
        LET w == last.r.writes[i]
            mt == last.evt.body.mime[w.kind]
        IN  IF mt = MimeEmpty THEN w.ext = << >>
            ELSE IF StandardExtensions(mt) # {} THEN w.ext \in StandardExtensions(mt)
            ELSE w.ext = splitExtension(mt)

\* The first run of digits of a string, read from the left: what the claim
\* calls its digit sequence ("" when the string holds no digit).
RECURSIVE TakeDigits(_)
TakeDigits(s) ==
    IF s = << >> \/ Head(s) \notin Digits THEN << >>
    ELSE <<Head(s)>> \o TakeDigits(Tail(s))

RECURSIVE FirstDigitRun(_)
FirstDigitRun(s) ==
    IF s = << >> THEN << >>
    ELSE IF Head(s) \in Digits THEN TakeDigits(s)
    ELSE FirstDigitRun(Tail(s))

\* C13: two addresses with the same first run of digits get the same answer
\* from isFromMySelf, whatever their "+" prefix, device number or server;
\* and the answer is true exactly when the address's first run of digits
\* equals that of the account's own JID.
C13_SelfIsDigitRunEquality ==
    selfTest.done =>
        /\ (FirstDigitRun(selfTest.a) = FirstDigitRun(selfTest.b))
              => (selfTest.selfA = selfTest.selfB)
        /\ selfTest.selfA <=> (FirstDigitRun(selfTest.a) = FirstDigitRun(cliStoreID))
        /\ selfTest.selfB <=> (FirstDigitRun(selfTest.b) = FirstDigitRun(cliStoreID))

\* isFromMySelf answered true for the account's user JID and for the same
\* number written with a "+" and the group server.
C13_Witness ==
    /\ selfTest.done
    /\ selfTest.a = UserSelf \o SrvUser
    /\ selfTest.b = <<"+">> \o UserSelf \o SrvGroup
    /\ selfTest.selfA
    /\ selfTest.selfB

\* C14: the payload POSTed for a receipt has exactly the fields source,
\* timestamp, type and ids, with the receipt's source, timestamp and
\* message-id list unchanged and a type that names the receipt type:
\* "delivered" for a Delivered receipt.
C14_ReceiptPayload ==
    (Ended /\ last.evt.kind = "Receipt") =>
        \A p \in PostsOf(last.r) :
            /\ DOMAIN p.payload = {"source", "timestamp", "type", "ids"}
            /\ p.payload.source = last.evt.info.source
            /\ p.payload.timestamp = last.evt.timestamp
            /\ p.payload.ids = last.evt.ids
            /\ p.payload.type # ""
            /\ last.evt.rtype = "Delivered" => p.payload.type = "delivered"

\* C15: the message field of a POSTed message payload is {id, text,
\* replied_id} with the event's id, the text of the extended text message
\* when the message has one and the conversation otherwise, and as
\* replied_id the stanza id of the extended text message's reply context
\* whenever it has one ("" when it has none).
C15_MessageNormalization ==
    (Ended /\ last.evt.kind = "Message") =>
        \A p \in PostsOf(last.r) :
            LET b == last.evt.body
            IN  p.payload.message =
                    [id |-> last.evt.id,
                     text |-> IF b.etm THEN b.ext ELSE b.conv,
                     replied_id |-> IF b.etm /\ b.ctx THEN b.stanza ELSE ""]

\* Download commands issued, and files written, for the media of one kind.
DownloadsOf(r, k) ==
    Cardinality({i \in 1..Len(r.cmds) : r.cmds[i] = [op |-> "Download", arg |-> k]})

WritesOf(r, k) == Cardinality({i \in 1..Len(r.writes) : r.writes[i].kind = k})

\* C16: while one Message event is handled, the media reference of each
\* kind is downloaded at most once and written at most once, and exactly
\* once when the event reaches its webhook delivery.
C16_MediaConsumedOnce ==
    (Ended /\ last.evt.kind = "Message") =>
        \A k \in MediaKinds :
            /\ DownloadsOf(last.r, k) <= 1
            /\ WritesOf(last.r, k) <= 1
            /\ (k \in last.evt.body.media /\ last.r.fwdStage = "deliver") =>
                  (DownloadsOf(last.r, k) = 1 /\ WritesOf(last.r, k) = 1)

\* The "send presence available" commands of an invocation.
PresenceSends(r) ==
    {i \in 1..Len(r.cmds) : r.cmds[i] = [op |-> "SendPresence", arg |-> "available"]}

\* C17: a "send presence available" command is issued only while handling
\* Connected, PushNameSetting, or AppStateSyncComplete named critical_block,
\* and only with a non-empty push name; at most one is issued per event; a
\* failed send is logged as a warning, is not sent again, and the handling
\* of the event still returns.
C17_PresenceGated ==
    Ended =>
        /\ PresenceSends(last.r) # {} =>
              /\ \/ last.evt.kind \in {"Connected", "PushNameSetting"}
                 \/ (last.evt.kind = "AppStateSyncComplete"
                        /\ last.evt.name = "critical_block")
              /\ pushName # ""
        /\ Cardinality(PresenceSends(last.r)) <= 1
        /\ (PresenceSends(last.r) # {} /\ last.env.pres = "fail") =>
              /\ "warn:presence" \in LogsOf(last.r)
              /\ last.r.outcome = "returned"
              /\ proc = "running"

\* The presence send of an AppStateSyncComplete event named critical_block
\* failed, and the handling returned.
C17_Witness ==
    /\ pc = "done"
    /\ last.evt.kind = "AppStateSyncComplete"
    /\ last.evt.name = "critical_block"
    /\ pushName # ""
    /\ last.env.pres = "fail"
    /\ Cardinality(PresenceSends(last.r)) = 1

\* The variants handler only logs, or has no case for.
QuietKinds == {"Presence", "DeleteForMe", "AppState", "Other"}

\* C18, state part: an invocation on a quiet variant returns having issued
\* no POST, no client command, no file write and no notification.
C18_QuietInvocation ==
    (Ended /\ last.evt.kind \in QuietKinds) =>
        (Silent(last.r) /\ last.r.outcome = "returned" /\ proc = "running")

\* C18: handling a Presence, DeleteForMe or AppState event, or a variant the
\* switch has no case for, has no effect but a log line: the invocation is
\* silent, and the step that handles it leaves the history counter, the
\* history files and the count of POSTs of every event unchanged.
C18_QuietVariantsNoEffect ==
    /\ []C18_QuietInvocation
    /\ [][(pc = "handling" /\ cur.kind \in QuietKinds) =>
            /\ historySyncID' = historySyncID
            /\ histPaths' = histPaths
            /\ openFiles' = openFiles
            /\ postCount' = postCount
            /\ pc' = "done"]_vars

\* A Presence event was handled after an earlier event had been POSTed.
C18_Witness ==
    /\ pc = "done"
    /\ last.evt.kind = "Presence"
    /\ last.eid = 2
    /\ postCount[1] = 1
    /\ "info:presence-update" \in LogsOf(last.r)

\* The variants that report a change of the login state.
LoginKinds == {"PairSuccess", "LoggedOut"}

\* C19, state part: PairSuccess sends exactly one LOGIN_SUCCESS record and
\* LoggedOut exactly one LIST_DEVICES record with a nil result; they issue no
\* POST, command or write; no other event sends a record; and the
\* invocation has returned with the dispatcher able to take the next event.
C19_LoginNotifications ==
    Ended =>
        /\ last.evt.kind = "PairSuccess" =>
              /\ Len(last.r.bcasts) = 1
              /\ last.r.bcasts[1].code = "LOGIN_SUCCESS"
        /\ last.evt.kind = "LoggedOut" =>
              /\ Len(last.r.bcasts) = 1
              /\ last.r.bcasts[1].code = "LIST_DEVICES"
              /\ last.r.bcasts[1].result = "nil"
        /\ last.evt.kind \in LoginKinds =>
              /\ last.r.posts = << >>
              /\ last.r.cmds = << >>
              /\ last.r.writes = << >>
              /\ last.r.outcome = "returned"
              /\ pc = "done"
              /\ proc = "running"
        /\ last.evt.kind \notin LoginKinds => last.r.bcasts = << >>

C20_NoOpenHistoryFile ==
    /\ openFiles <= Cardinality({w \in Workers : wpc[w] \in {"encode", "close"}})
    /\ (\A w \in Workers : wpc[w] = "idle") => openFiles = 0

====
